---- MODULE Spec2Model ----
(***************************************************************************)
(* A model of the query execution pipeline of clickhouse.rs                *)
(* (src/src/query.rs) and of the mock server's handler queue used by       *)
(* src/examples/mock.rs.                                                   *)
(*                                                                         *)
(* A rendered query text is modelled by its length in bytes: the only      *)
(* thing do_execute reads of it is query.len(), and it is moved unchanged  *)
(* into the body or into the `query` URL parameter.  Rows are modelled by  *)
(* the natural numbers 1..n in the order the server wrote them.            *)
(***************************************************************************)
EXTENDS Integers, Sequences, FiniteSets, TLC

\* query.rs:15
MAX_QUERY_LEN_TO_USE_GET == 8192

\* query.rs:16 sets 20000.  fetch_all only compares buffer.len() with it, so
\* the model runs with a small threshold and every formula is stated in
\* terms of BUFFER_SIZE.
BUFFER_SIZE == 3

\* query.rs:71, the length of " FORMAT RowBinary"
FORMAT_LEN == 17

\* Bounds of the model.
MaxBinds == 2
LenMargin == 2
MaxQueue == 3
MaxRequests == 4

MaxRows == 2 * BUFFER_SIZE + 1

VARIABLES
    client,     \* Client: the configuration do_execute reads
    pc,         \* position of the one Query call of a behaviour
    op,         \* the method called on the Query
    sql,        \* Query.sql, the SqlBuilder
    request,    \* the request handed to the transport, or NoRequest
    response,   \* what the server answered, or NoResponse
    pulled,     \* rows the cursor has yielded so far
    nexts,      \* calls of RowCursor::next made so far
    buffer,     \* fetch_all: buffer
    result,     \* fetch_all: result
    task,       \* fetch_all: the spawned handoff task
    ret,        \* what the call returned
    handlers,   \* mock: the queue of installed handlers
    installed,  \* mock: number of add() calls so far
    served      \* mock: the requests answered so far, in arrival order

vars == <<client, pc, op, sql, request, response, pulled, nexts, buffer,
          result, task, ret, handlers, installed, served>>

queryVars == <<client, pc, op, sql, request, response, pulled, nexts, buffer,
               result, task, ret>>

mockVars == <<handlers, installed, served>>

----------------------------------------------------------------------------
(* Values *)

NoErr == [tag |-> "none", reason |-> ""]

Err(tag) == [tag |-> tag, reason |-> ""]

BadResponse(reason) == [tag |-> "BadResponse", reason |-> reason]

NoRet == [kind |-> "none", err |-> NoErr, rows |-> <<>>]

RetOk(rows) == [kind |-> "ok", err |-> NoErr, rows |-> rows]

RetErr(e) == [kind |-> "err", err |-> e, rows |-> <<>>]

NoRequest == [sent |-> FALSE]

NoResponse == [status |-> 0, reason |-> "", rows |-> <<>>, tail |-> "none"]

NoTask == [state |-> "none", chunk |-> <<>>]

NoSql == [len |-> 0, places |-> 0, args |-> <<>>, fields |-> FALSE]

Iota(n) == [i \in 1..n |-> i]

----------------------------------------------------------------------------
(* SqlBuilder: sql.rs is not part of the sources; modelled from the        *)
(* specification, sections 3 and 4.1.                                      *)

ArgLens == {1, 2}

\* A bound argument: an escaped literal or a raw identifier, with the length
\* of its rendering.  Only an identifier can be syntactically invalid.
ArgValues ==
    [kind : {"literal", "identifier"}, valid : {TRUE}, rlen : ArgLens]
        \cup {[kind |-> "identifier", valid |-> FALSE, rlen |-> 1]}

\* Template lengths: a short one, and those around the GET limit, with and
\* without the directive fetch appends.
TemplateLens ==
    {MaxBinds}
        \cup ((MAX_QUERY_LEN_TO_USE_GET - LenMargin) ..
              (MAX_QUERY_LEN_TO_USE_GET + LenMargin))
        \cup ((MAX_QUERY_LEN_TO_USE_GET - FORMAT_LEN - LenMargin) ..
              (MAX_QUERY_LEN_TO_USE_GET - FORMAT_LEN + LenMargin))

SqlNew(len, places) ==
    [len |-> len, places |-> places, args |-> <<>>, fields |-> FALSE]

SqlBindArg(s, v) == [s EXCEPT !.args = Append(@, v)]

SqlBindFields(s) == [s EXCEPT !.fields = TRUE]

SqlAppend(s, n) == [s EXCEPT !.len = @ + n]

RECURSIVE SumLens(_)
SumLens(args) ==
    IF args = <<>> THEN 0 ELSE Head(args).rlen + SumLens(Tail(args))

\* finish(): placeholders are consumed left to right; an invalid identifier
\* fails when it is rendered, a missing or an unused argument fails as a
\* binding error.  A placeholder `?` is one byte.
SqlFinish(s) ==
    LET n == IF s.places < Len(s.args) THEN s.places ELSE Len(s.args)
    IN  IF \E i \in 1..n : ~s.args[i].valid
        THEN [ok |-> FALSE, err |-> Err("Identifier"), len |-> 0]
        ELSE IF Len(s.args) # s.places
        THEN [ok |-> FALSE, err |-> Err("Binding"), len |-> 0]
        ELSE [ok |-> TRUE, err |-> NoErr,
              len |-> s.len - s.places + SumLens(s.args)]

----------------------------------------------------------------------------
(* Query::do_execute, query.rs:138-195 *)

UsePostInclusive(read_only, len) ==
    ~read_only \/ len >= MAX_QUERY_LEN_TO_USE_GET

\* query.rs:150
UsePost(read_only, len) ==
    ~read_only \/ len > MAX_QUERY_LEN_TO_USE_GET

ReadonlyHintOnEveryPost(read_only, use_post) == use_post

\* query.rs:153-156: readonly=1 is appended in the POST branch, when read_only
ReadonlyHint(read_only, use_post) == use_post /\ read_only

\* query.rs:141-171: the query pairs, in the order they are appended
Pairs(c, read_only, use_post) ==
    (IF c.database THEN <<"database">> ELSE <<>>)
        \o (IF ReadonlyHint(read_only, use_post) THEN <<"readonly">> ELSE <<>>)
        \o (IF ~use_post THEN <<"query">> ELSE <<>>)
        \o (IF c.lz4 THEN <<"compress">> ELSE <<>>)

BuildRequest(c, read_only, len) ==
    LET use_post == UsePost(read_only, len)
    IN  [sent |-> TRUE,
         method |-> IF use_post THEN "POST" ELSE "GET",
         pairs |-> Pairs(c, read_only, use_post),
         \* the value of the `query` pair (GET only); -1 when there is none
         url_query |-> IF use_post THEN -1 ELSE len,
         \* Body::from(query) or Body::empty(); -1 for the empty body
         body |-> IF use_post THEN len ELSE -1,
         content_length |-> IF use_post THEN len ELSE 0,
         read_only |-> read_only,
         text |-> len]

DoExecuteSendsBeforeRender(s, c, read_only) ==
    LET q == SqlFinish(s)
    IN  IF ~q.ok
        THEN [ok |-> FALSE, err |-> q.err,
              request |-> IF c.url_ok THEN BuildRequest(c, read_only, 0)
                          ELSE NoRequest]
        ELSE IF ~c.url_ok
        THEN [ok |-> FALSE, err |-> Err("InvalidParams"), request |-> NoRequest]
        ELSE [ok |-> TRUE, err |-> NoErr,
              request |-> BuildRequest(c, read_only, q.len)]

\* The result of do_execute and the request it handed to the transport.
DoExecute(s, c, read_only) ==
    LET q == SqlFinish(s)
    IN  IF ~q.ok
        THEN [ok |-> FALSE, err |-> q.err, request |-> NoRequest]
        ELSE IF ~c.url_ok
        THEN [ok |-> FALSE, err |-> Err("InvalidParams"), request |-> NoRequest]
        ELSE [ok |-> TRUE, err |-> NoErr,
              request |-> BuildRequest(c, read_only, q.len)]

----------------------------------------------------------------------------
(* The response and the cursor: response.rs and cursor.rs are not part of  *)
(* the sources; modelled from the specification, sections 4.3, 6 and 7.    *)

Statuses == {200, 403, 500}

StatusReason(status) ==
    CASE status = 403 -> "Forbidden"
      [] status = 500 -> "Internal Server Error"
      [] OTHER -> "OK"

\* How a success body ends: cleanly, in the middle of a row, or with the
\* connection lost.
Tails == {"eof", "truncated", "reset"}

\* RowBinaryCursor::next after `n` rows were yielded.
\* A failure is fatal for the cursor.
CursorNext(r, n) ==
    IF r.status # 200
    THEN [kind |-> "err", err |-> BadResponse(r.reason), row |-> 0]
    ELSE IF n < Len(r.rows)
    THEN [kind |-> "row", err |-> NoErr, row |-> r.rows[n + 1]]
    ELSE IF r.tail = "eof"
    THEN [kind |-> "end", err |-> NoErr, row |-> 0]
    ELSE IF r.tail = "truncated"
    THEN [kind |-> "err", err |-> Err("NotEnoughData"), row |-> 0]
    ELSE [kind |-> "err", err |-> Err("Network"), row |-> 0]

\* Response::finish: succeeds only on a success status.
ResponseFinish(r) ==
    IF r.status # 200 THEN RetErr(BadResponse(r.reason))
    ELSE IF r.tail = "reset" THEN RetErr(Err("Network"))
    ELSE RetOk(<<>>)

----------------------------------------------------------------------------
(* Initial state *)

Clients == [url_ok : BOOLEAN, database : BOOLEAN, lz4 : BOOLEAN]

InitQuery ==
    /\ pc = "idle"
    /\ op = "none"
    /\ sql = NoSql
    /\ request = NoRequest
    /\ response = NoResponse
    /\ pulled = 0
    /\ nexts = 0
    /\ buffer = <<>>
    /\ result = <<>>
    /\ task = NoTask
    /\ ret = NoRet

InitMock ==
    /\ handlers = <<>>
    /\ installed = 0
    /\ served = <<>>

Init ==
    /\ client \in Clients
    /\ InitQuery
    /\ InitMock

----------------------------------------------------------------------------
(* Query *)

\* Client::query -> Query::new, query.rs:26-31
NewQuery ==
    /\ pc = "idle"
    /\ \E len \in TemplateLens, places \in 0..MaxBinds :
           sql' = SqlNew(len, places)
    /\ pc' = "built"
    /\ UNCHANGED <<client, op, request, response, pulled, nexts, buffer,
                   result, task, ret, mockVars>>

\* query.rs:38-41
Bind ==
    /\ pc = "built"
    /\ Len(sql.args) < MaxBinds
    /\ \E v \in ArgValues : sql' = SqlBindArg(sql, v)
    /\ UNCHANGED <<client, pc, op, request, response, pulled, nexts, buffer,
                   result, task, ret, mockVars>>

ExecuteReadOnly == TRUE

\* query.rs:45: the flag execute passes to do_execute
ExecuteFlag == FALSE

\* query.rs:44-46, up to the await of Response::finish
Execute ==
    /\ pc = "built"
    /\ LET r == DoExecute(sql, client, ExecuteFlag)
       IN  /\ request' = r.request
           /\ IF r.ok
              THEN pc' = "finish" /\ ret' = ret
              ELSE pc' = "done" /\ ret' = RetErr(r.err)
    /\ op' = "execute"
    /\ sql' = NoSql
    /\ UNCHANGED <<client, response, pulled, nexts, buffer, result, task,
                   mockVars>>

\* query.rs:45: `.finish().await` once the server has answered
ExecuteFinish ==
    /\ pc = "finish"
    /\ response # NoResponse
    /\ ret' = ResponseFinish(response)
    /\ pc' = "done"
    /\ UNCHANGED <<client, op, sql, request, response, pulled, nexts, buffer,
                   result, task, mockVars>>

FetchOneEmptyIsOk(n) ==
    CASE n.kind = "row" -> RetOk(<<n.row>>)
      [] n.kind = "end" -> RetOk(<<>>)
      [] OTHER -> RetErr(n.err)

\* query.rs:84-88
FetchOneMatch(n) ==
    CASE n.kind = "row" -> RetOk(<<n.row>>)
      [] n.kind = "end" -> RetErr(Err("RowNotFound"))
      [] OTHER -> RetErr(n.err)

\* query.rs:98: Ok(Some(row)), Ok(None) or Err(err), as next() gave it
FetchOptionalMatch(n) ==
    CASE n.kind = "row" -> RetOk(<<n.row>>)
      [] n.kind = "end" -> RetOk(<<>>)
      [] OTHER -> RetErr(n.err)

\* query.rs:69-75: the SqlBuilder fetch hands to do_execute
FetchSql(s) == SqlAppend(SqlBindFields(s), FORMAT_LEN)

\* query.rs:73
FetchResult(s, c) == DoExecute(FetchSql(s), c, TRUE)

\* A call of `method`, which starts with self.fetch()?; `next` is where the
\* method goes on with the cursor.
StartFetch(method, next) ==
    /\ pc = "built"
    /\ LET r == FetchResult(sql, client)
       IN  /\ request' = r.request
           /\ IF r.ok
              THEN pc' = next /\ ret' = ret
              ELSE pc' = "done" /\ ret' = RetErr(r.err)
    /\ op' = method
    /\ sql' = NoSql
    /\ UNCHANGED <<client, response, pulled, nexts, buffer, result, task,
                   mockVars>>

\* query.rs:69-75: fetch returns the cursor to the caller
Fetch ==
    /\ pc = "built"
    /\ LET r == FetchResult(sql, client)
       IN  /\ request' = r.request
           /\ IF r.ok
              THEN pc' = "cursor" /\ ret' = RetOk(<<>>)
              ELSE pc' = "done" /\ ret' = RetErr(r.err)
    /\ op' = "fetch"
    /\ sql' = NoSql
    /\ UNCHANGED <<client, response, pulled, nexts, buffer, result, task,
                   mockVars>>

\* query.rs:203-208: the caller drains the cursor as in the example of
\* query.rs:64, `while let Some(row) = cursor.next().await?`; ret holds what
\* the last call of next gave.
RowCursorNext ==
    /\ pc = "cursor"
    /\ response # NoResponse
    /\ LET n == CursorNext(response, pulled)
       IN  /\ ret' = FetchOptionalMatch(n)
           /\ pulled' = IF n.kind = "row" THEN pulled + 1 ELSE pulled
           /\ pc' = IF n.kind = "row" THEN "cursor" ELSE "done"
    /\ nexts' = nexts + 1
    /\ UNCHANGED <<client, op, sql, request, response, buffer, result, task,
                   mockVars>>

\* query.rs:84, 98, 114
FetchOne == StartFetch("fetch_one", "one")

FetchOptional == StartFetch("fetch_optional", "optional")

FetchAll == StartFetch("fetch_all", "pull")

\* query.rs:84: `.next().await` and the match
FetchOneNext ==
    /\ pc = "one"
    /\ response # NoResponse
    /\ LET n == CursorNext(response, pulled)
       IN  /\ ret' = FetchOneMatch(n)
           /\ pulled' = IF n.kind = "row" THEN pulled + 1 ELSE pulled
    /\ nexts' = nexts + 1
    /\ pc' = "done"
    /\ UNCHANGED <<client, op, sql, request, response, buffer, result, task,
                   mockVars>>

\* query.rs:98
FetchOptionalNext ==
    /\ pc = "optional"
    /\ response # NoResponse
    /\ LET n == CursorNext(response, pulled)
       IN  /\ ret' = FetchOptionalMatch(n)
           /\ pulled' = IF n.kind = "row" THEN pulled + 1 ELSE pulled
    /\ nexts' = nexts + 1
    /\ pc' = "done"
    /\ UNCHANGED <<client, op, sql, request, response, buffer, result, task,
                   mockVars>>

----------------------------------------------------------------------------
(* Query::fetch_all, query.rs:110-136 *)

\* Vec::split_off(at): the tail is returned, the head stays.
SplitOff(v, at) ==
    [chunk |-> SubSeq(v, at + 1, Len(v)), rest |-> SubSeq(v, 1, at)]

FinalResultWithoutBuffer(res, buf) == res

\* query.rs:133
FinalResult(res, buf) == res \o buf

PullErrorEndsStream(n) ==
    IF n.kind = "err" THEN [kind |-> "end", err |-> NoErr, row |-> 0] ELSE n

\* query.rs:120: the `?` on cursor.next().await
PullOutcome(n) == n

\* query.rs:120-125: one pull and the loop body up to the spawn; after the
\* loop, lines 133-135.
Pull ==
    /\ pc = "pull"
    /\ response # NoResponse
    /\ nexts' = nexts + 1
    /\ LET n == PullOutcome(CursorNext(response, pulled))
       IN  CASE n.kind = "err" ->
                  /\ ret' = RetErr(n.err)
                  /\ pc' = "done"
                  /\ buffer' = <<>>
                  /\ result' = <<>>
                  /\ UNCHANGED <<pulled, task>>
             [] n.kind = "end" ->
                  /\ ret' = RetOk(FinalResult(result, buffer))
                  /\ pc' = "done"
                  /\ buffer' = <<>>
                  /\ result' = <<>>
                  /\ UNCHANGED <<pulled, task>>
             [] OTHER ->
                  LET pushed == Append(buffer, n.row)
                  IN  /\ pulled' = pulled + 1
                      /\ IF Len(pushed) >= BUFFER_SIZE
                         THEN LET s == SplitOff(pushed, 0)
                              IN  /\ buffer' = s.rest
                                  /\ task' = [state |-> "running",
                                              chunk |-> s.chunk]
                                  /\ pc' = "join"
                         ELSE /\ buffer' = pushed
                              /\ task' = task
                              /\ pc' = "pull"
                      /\ UNCHANGED <<ret, result>>
    /\ UNCHANGED <<client, op, sql, request, response, mockVars>>

\* query.rs:125: the spawned future `async move { chunk }` runs to its end
TaskRun ==
    /\ task.state = "running"
    /\ task' = [task EXCEPT !.state = "finished"]
    /\ UNCHANGED <<client, pc, op, sql, request, response, pulled, nexts,
                   buffer, result, ret, mockVars>>

\* query.rs:125: the runtime drops the task before it ran (a shutdown)
TaskCancel ==
    /\ task.state = "running"
    /\ task' = [state |-> "cancelled", chunk |-> <<>>]
    /\ UNCHANGED <<client, pc, op, sql, request, response, pulled, nexts,
                   buffer, result, ret, mockVars>>

JoinIgnoringFailure ==
    /\ pc = "join"
    /\ task.state \in {"finished", "cancelled"}
    /\ result' = result \o task.chunk
    /\ pc' = "pull"
    /\ task' = NoTask
    /\ UNCHANGED <<client, op, sql, request, response, pulled, nexts, buffer,
                   ret, mockVars>>

\* query.rs:126-128: the await of the JoinHandle, map_err(Error::from)? and
\* result.extend(chunk_result)
Join ==
    /\ pc = "join"
    /\ task.state \in {"finished", "cancelled"}
    /\ IF task.state = "finished"
       THEN /\ result' = result \o task.chunk
            /\ pc' = "pull"
            /\ UNCHANGED <<ret, buffer>>
       ELSE /\ ret' = RetErr(Err("TaskJoin"))
            /\ pc' = "done"
            /\ result' = <<>>
            /\ buffer' = <<>>
    /\ task' = NoTask
    /\ UNCHANGED <<client, op, sql, request, response, pulled, nexts,
                   mockVars>>

----------------------------------------------------------------------------
(* The server *)

\* The transport delivers the request and the server answers it: a failure
\* status with its reason, or a success body of n rows.
Serve ==
    /\ request # NoRequest
    /\ response = NoResponse
    /\ \E status \in Statuses :
           IF status = 200
           THEN \E n \in 0..MaxRows, tail \in Tails :
                    response' = [status |-> 200, reason |-> "",
                                 rows |-> Iota(n), tail |-> tail]
           ELSE response' = [status |-> status,
                             reason |-> StatusReason(status),
                             rows |-> <<>>, tail |-> "eof"]
    /\ UNCHANGED <<client, pc, op, sql, request, pulled, nexts, buffer,
                   result, task, ret, mockVars>>

Next ==
    \/ NewQuery
    \/ Bind
    \/ Execute
    \/ ExecuteFinish
    \/ Fetch
    \/ RowCursorNext
    \/ FetchOne
    \/ FetchOptional
    \/ FetchAll
    \/ FetchOneNext
    \/ FetchOptionalNext
    \/ Pull
    \/ TaskRun
    \/ TaskCancel
    \/ Join
    \/ Serve

Spec == Init /\ [][Next]_vars

----------------------------------------------------------------------------
(* The mock server, test::Mock: its code is not part of the sources;      *)
(* modelled from the specification, sections 3 and 4.5.  Handlers are      *)
(* numbered in the order add() installed them.                             *)

HandlerKinds ==
    {"record_ddl", "provide", "failure", "record", "watch",
     "watch_only_events"}

MockTakeNewest(q) == [h |-> q[Len(q)], rest |-> SubSeq(q, 1, Len(q) - 1)]

\* The handler that answers the next request, and the queue it leaves.
MockTake(q) == [h |-> Head(q), rest |-> Tail(q)]

\* mock.rs:96: Client::default().with_url(mock.url())
MockClient == [url_ok |-> TRUE, database |-> FALSE, lz4 |-> FALSE]

MockInit ==
    /\ client = MockClient
    /\ InitQuery
    /\ InitMock

\* mock.add(handler), as in mock.rs:100, 105, 110, 115, 124-125, 134-135
MockAdd ==
    /\ installed < MaxRequests
    /\ Len(handlers) < MaxQueue
    /\ \E k \in HandlerKinds :
           handlers' = Append(handlers, [id |-> installed + 1, kind |-> k])
    /\ installed' = installed + 1
    /\ UNCHANGED <<served, queryVars>>

\* A request of the client under test arrives and is answered by one
\* installed handler.  `pending` is the number of handlers that were queued.
MockServe ==
    /\ handlers # <<>>
    /\ LET t == MockTake(handlers)
       IN  /\ served' = Append(served, [handler |-> t.h.id, kind |-> t.h.kind,
                                        pending |-> Len(handlers)])
           /\ handlers' = t.rest
    /\ UNCHANGED <<installed, queryVars>>

MockNext ==
    \/ MockAdd
    \/ MockServe

MockSpec == MockInit /\ [][MockNext]_vars

----------------------------------------------------------------------------
(* Claims *)

FetchOps == {"fetch", "fetch_one", "fetch_optional", "fetch_all"}

\* C1: do_execute chooses GET if and only if the call is read-only and the
\* rendered text is at most 8192 bytes long, and POST in every other case; a
\* read-only text of exactly 8192 bytes goes by GET, one of 8193 bytes by POST.
C1_GetIffReadOnlyAndShort ==
    request.sent =>
        /\ request.method \in {"GET", "POST"}
        /\ request.method = "GET" <=>
               (request.read_only /\ request.text <= 8192)
        /\ (request.read_only /\ request.text = 8192) => request.method = "GET"
        /\ request.text = 8193 => request.method = "POST"

C1_Witness ==
    /\ request.sent
    /\ request.read_only
    /\ request.text = 8192
    /\ request.method = "GET"

\* C2: when the cursor yielded the N rows of the response and then a clean
\* end-of-stream, fetch_all returns exactly those N rows, each once and in
\* the order the cursor yielded them, for every N from 0 to 2K+1.
C2_FetchAllReturnsRowsInOrder ==
    (/\ op = "fetch_all"
     /\ pc = "done"
     /\ response.status = 200
     /\ response.tail = "eof"
     /\ pulled = Len(response.rows)
     /\ nexts = Len(response.rows) + 1)
        => ret = RetOk(response.rows)

C2_Witness ==
    /\ op = "fetch_all"
    /\ pc = "done"
    /\ ret.kind = "ok"
    /\ Len(ret.rows) = 2 * BUFFER_SIZE + 1
    /\ ret.rows = response.rows

\* C3: when rendering the query text fails, the method called on the Query
\* returns the render error and hands no request to the transport, also when
\* the URL is malformed; and once a call is over without a request, none is
\* made later.
C3_RenderErrorSendsNothing ==
    [][/\ (pc = "built" /\ pc' # "built" /\ ~SqlFinish(sql).ok)
           => /\ pc' = "done"
              /\ ret' = RetErr(SqlFinish(sql).err)
              /\ ~request'.sent
       /\ (pc = "done" /\ ~request.sent) => ~request'.sent]_vars

C3_Witness ==
    /\ pc = "done"
    /\ op = "fetch_all"
    /\ ret.err.tag = "Identifier"
    /\ ~client.url_ok
    /\ ~request.sent

\* C4: fetch_one over zero rows fails with RowNotFound; over one or more rows
\* it returns the first row after a single call of next; a failure of the
\* first pull is returned as it is and never as RowNotFound.
C4_FetchOne ==
    (op = "fetch_one" /\ pc = "done" /\ request.sent) =>
        /\ nexts = 1
        /\ (response.status = 200 /\ response.rows = <<>>
                /\ response.tail = "eof")
               => ret = RetErr(Err("RowNotFound"))
        /\ (response.status = 200 /\ response.rows # <<>>)
               => (ret = RetOk(<<response.rows[1]>>) /\ pulled = 1)
        /\ response.status # 200
               => ret = RetErr(BadResponse(response.reason))
        /\ (response.status = 200 /\ response.rows = <<>>
                /\ response.tail # "eof")
               => (ret.kind = "err" /\ ret.err.tag \in {"NotEnoughData", "Network"})

C4_Witness ==
    /\ op = "fetch_one"
    /\ pc = "done"
    /\ Len(response.rows) > 1
    /\ ret = RetOk(<<response.rows[1]>>)
    /\ nexts = 1

\* C5: the request execute issues is a POST whose body is the rendered text,
\* whatever its length; it is never a GET and never carries a `query` pair.
C5_ExecuteAlwaysPosts ==
    (op = "execute" /\ request.sent) =>
        /\ request.method = "POST"
        /\ request.body = request.text
        /\ request.content_length = request.text
        /\ request.url_query = -1
        /\ \A i \in 1..Len(request.pairs) : request.pairs[i] # "query"

C5_Witness ==
    /\ op = "execute"
    /\ request.sent
    /\ request.text <= MAX_QUERY_LEN_TO_USE_GET
    /\ request.method = "POST"

\* C6: when the server answers the request of fetch or fetch_all with the
\* forbidden status, the first pull ends the call with
\* BadResponse("Forbidden"): never Ok, never a decode or a not-found error.
C6_ForbiddenSurfaces ==
    (op \in {"fetch", "fetch_all"} /\ response.status = 403 /\ nexts >= 1) =>
        /\ pc = "done"
        /\ nexts = 1
        /\ ret = RetErr(BadResponse("Forbidden"))

C6_Witness ==
    /\ op = "fetch_all"
    /\ response.status = 403
    /\ ret = RetErr(BadResponse("Forbidden"))

\* C7: the i-th request is answered by the i-th installed handler, and the
\* handlers still queued are those installed after it, in the order of their
\* installation: each handler answers one request, none is skipped or reused.
C7_HandlersAreFifo ==
    /\ \A i \in 1..Len(served) : served[i].handler = i
    /\ Len(served) + Len(handlers) = installed
    /\ \A j \in 1..Len(handlers) : handlers[j].id = Len(served) + j

\* record_ddl was installed before watch, both were queued, and the two
\* requests that followed went to record_ddl and then to watch.
C7_Witness ==
    /\ Len(served) >= 2
    /\ served[1].kind = "record_ddl"
    /\ served[1].pending = 2
    /\ served[2].kind = "watch"
    /\ served[2].handler = 2

HandoffPending == task.state = "running"

\* fetch_all is pulling a further row, or has pulled one, since the dispatch.
DecodingContinues == pc = "pull" \/ buffer # <<>>

\* C9: a chunk that reached the threshold is handed off so that its
\* materialization overlaps with continued decoding: while the handoff of a
\* dispatched chunk has not completed, fetch_all can pull the next row.
C9_HandoffOverlapsDecoding == HandoffPending => ENABLED Pull

\* What the code does instead: fetch_all waits for the handoff before it
\* pulls again, so no state has a pending handoff and a further pull.
NoOverlap == ~(HandoffPending /\ DecodingContinues)

\* C10: fetch_all returns Ok only if every pull up to the clean end-of-stream
\* succeeded and every handoff completed, and then with all the rows; at the
\* first pull or handoff that fails it stops, returns that failure and none
\* of the rows.
C10_FetchAllFailsWhole ==
    (op = "fetch_all" /\ pc = "done" /\ request.sent) =>
        /\ ret.kind \in {"ok", "err"}
        /\ ret.kind = "ok" =>
               /\ response.status = 200
               /\ response.tail = "eof"
               /\ pulled = Len(response.rows)
               /\ nexts = pulled + 1
               /\ ret.rows = response.rows
        /\ ret.kind = "err" =>
               /\ ret.rows = <<>>
               /\ \/ /\ ret.err.tag = "TaskJoin"
                     /\ nexts = pulled
                     /\ pulled % BUFFER_SIZE = 0
                     /\ pulled > 0
                  \/ /\ nexts = pulled + 1
                     /\ CursorNext(response, pulled).kind = "err"
                     /\ ret.err = CursorNext(response, pulled).err

C10_Witness ==
    /\ op = "fetch_all"
    /\ pc = "done"
    /\ ret = RetErr(Err("NotEnoughData"))
    /\ pulled > BUFFER_SIZE
    /\ pulled % BUFFER_SIZE # 0

====
